---- MODULE Spec2Model ----
(***************************************************************************)
(* Model of the Veo gallery application: the App component's view state    *)
(* (src/App.tsx), the generation pipeline generateVideo with its           *)
(* submission, polling loop and concurrent asset materialisation, and the  *)
(* local state of the GenerateVideoPage form                               *)
(* (src/components/VideoGrid.tsx, second half of the file).                *)
(*                                                                         *)
(* A nullable value of the program is modelled as a sequence: null is <<>> *)
(* and a value v is <<v>>.  A string the program trims or cuts is a        *)
(* sequence of one-character strings.                                      *)
(***************************************************************************)
EXTENDS Integers, Sequences, FiniteSets, TLC

VARIABLES
    videos,                 \* App: useState<Video[]>([])
    playingVideo,           \* App: useState<Video | null>(null)
    editingVideo,           \* App: useState<Video | null>(null)
    isGeneratingNewVideo,   \* App: useState(false)
    isSaving,               \* App: useState(false)
    savingMessage,          \* App: useState('Creating your video...')
    generationError,        \* App: useState<string[] | null>(null)
    prompt,                 \* GenerateVideoPage: useState('')
    aspectRatio,            \* GenerateVideoPage: useState('16:9')
    image,                  \* GenerateVideoPage: useState(null)
    pc,                     \* where the running async handler is suspended
    invocation,             \* the running handler's name and arguments
    request,                \* the generateVideos request in flight
    operation,              \* generateVideo: let operation
    statusQueries,          \* getVideosOperation calls issued in this run
    assets,                 \* generateVideo: the promises given to Promise.all
    consoleError,           \* the last error written by console.error
    nextId,                 \* the source of self.crypto.randomUUID()
    serviceJob              \* the service: the last status it reported for
                            \* the job of the latest submission

appVars  == <<videos, playingVideo, editingVideo, isGeneratingNewVideo,
              isSaving, savingMessage, generationError>>
formVars == <<prompt, aspectRatio, image>>
runVars  == <<pc, invocation, request, operation, statusQueries, assets>>
vars     == <<videos, playingVideo, editingVideo, isGeneratingNewVideo,
              isSaving, savingMessage, generationError, prompt, aspectRatio,
              image, pc, invocation, request, operation, statusQueries,
              assets, consoleError, nextId, serviceJob>>

----------------------------------------------------------------------------
(* Bounds of the model.                                                    *)

\* The gallery holds at most this many videos: no pipeline starts beyond it.
MaxVideos == 2
\* The service answers at most this many status queries with "not done".
MaxPolls == 2
\* A terminal operation carries at most this many generated videos.
MaxAssets == 2

----------------------------------------------------------------------------
(* Values.                                                                 *)

null == <<>>
Some(v) == <<v>>

VEO_MODEL_NAME == "veo-2.0-generate-001"

\* The texts the user may type into the prompt field.
Prompts == { <<>>, <<" ">>, <<"a">>, <<" ", "b", " ">> }

AspectRatios == {"16:9", "9:16"}

\* What handleImageChange stores for the file the user picked.
Images == { [base64 |-> "AAAA", mimeType |-> "image/png",
             dataUrl |-> "data:image/png;base64,AAAA"] }

\* String.prototype.trim: drop the white space at both ends.
RECURSIVE TrimStart(_)
TrimStart(s) ==
    IF s = <<>> THEN <<>>
    ELSE IF Head(s) = " " THEN TrimStart(Tail(s)) ELSE s

RECURSIVE TrimEnd(_)
TrimEnd(s) ==
    IF s = <<>> THEN <<>>
    ELSE IF s[Len(s)] = " " THEN TrimEnd(SubSeq(s, 1, Len(s) - 1)) ELSE s

Trim(s) == TrimEnd(TrimStart(s))

\* String.prototype.substring(0, n).
Substring(s, n) == SubSeq(s, 1, IF Len(s) < n THEN Len(s) ELSE n)

TitleLength == 30

\* `Generated: ${prompt.substring(0, 30)}${prompt.length > 30 ? '...' : ''}`
GeneratedTitle(p) ==
    <<"Generated: ", Substring(p, TitleLength),
      IF Len(p) > TitleLength THEN "..." ELSE "">>

\* `Remix of "${originalVideo.title}"`
RemixTitle(v) == <<"Remix of ", v.title>>

\* `data:${mimeType};base64,${videoSrc}`
DataUrl(mimeType, videoSrc) == <<"data:", mimeType, ";base64,", videoSrc>>

\* The base64 text bloblToBase64 resolves with for the i-th generated video.
Base64Of(i) == i

\* A message that carries the text of the error.
ErrorMessageOfError(error) == <<"Video generation failed.", error>>

\* The two lines both catch blocks hand to setGenerationError.
ErrorMessage(error) ==
    <<"Video generation failed.",
      "This may be due to a billing issue. Please ensure your Cloud Project is on a paid tier to use this feature.">>

\* The operations the service may answer with: not done; done without a
\* response; done with a response of n generated videos (an undefined
\* generatedVideos is the case n = 0, the code treats both alike).
Operations ==
    { [done |-> FALSE, response |-> null], [done |-> TRUE, response |-> null] }
    \cup { [done |-> TRUE, response |-> Some(n)] : n \in 0..MaxAssets }

\* A request that always has an image field, null when no image is given.
BuildRequestWithPlaceholder(p, ratio, img, numberOfVideos) ==
    IF img # null
    THEN [model |-> VEO_MODEL_NAME, prompt |-> p,
          image |-> [imageBytes |-> img[1].base64, mimeType |-> img[1].mimeType],
          config |-> [numberOfVideos |-> numberOfVideos, aspectRatio |-> ratio]]
    ELSE [model |-> VEO_MODEL_NAME, prompt |-> p,
          image |-> null,
          config |-> [numberOfVideos |-> numberOfVideos, aspectRatio |-> ratio]]

\* The request generateVideo passes to ai.models.generateVideos.
BuildRequest(p, ratio, img, numberOfVideos) ==
    IF img # null
    THEN [model |-> VEO_MODEL_NAME, prompt |-> p,
          image |-> [imageBytes |-> img[1].base64, mimeType |-> img[1].mimeType],
          config |-> [numberOfVideos |-> numberOfVideos, aspectRatio |-> ratio]]
    ELSE [model |-> VEO_MODEL_NAME, prompt |-> p,
          config |-> [numberOfVideos |-> numberOfVideos, aspectRatio |-> ratio]]

----------------------------------------------------------------------------
(* What App renders: the handlers a user can reach in a state.             *)

SavingProgressRendered == isSaving
GenerateFormRendered == ~isSaving /\ isGeneratingNewVideo
EditFormRendered ==
    ~isSaving /\ ~isGeneratingNewVideo /\ editingVideo # null
\* A render function without the early return on isSaving.
GridRenderedWhileSaving == ~isGeneratingNewVideo /\ editingVideo = null

GridRendered ==
    ~isSaving /\ ~isGeneratingNewVideo /\ editingVideo = null
PlayerRendered == ~isSaving /\ playingVideo # null
ErrorModalRendered == ~isSaving /\ generationError # null

\* The primary page of a state, as the render function selects it.
Page ==
    IF isSaving THEN "SavingProgress"
    ELSE IF isGeneratingNewVideo THEN "GenerateForm"
    ELSE IF editingVideo # null THEN "EditForm"
    ELSE "Grid"

----------------------------------------------------------------------------

Init ==
    /\ videos = <<>>
    /\ playingVideo = null
    /\ editingVideo = null
    /\ isGeneratingNewVideo = FALSE
    /\ isSaving = FALSE
    /\ savingMessage = "Creating your video..."
    /\ generationError = null
    /\ prompt = <<>>
    /\ aspectRatio = "16:9"
    /\ image = null
    /\ pc = "idle"
    /\ invocation = null
    /\ request = null
    /\ operation = null
    /\ statusQueries = 0
    /\ assets = <<>>
    /\ consoleError = null
    /\ nextId = 1
    /\ serviceJob = null

\* GenerateVideoPage is unmounted: its local state is gone, the next mount
\* starts from the useState initial values.
FormReset ==
    /\ prompt' = <<>>
    /\ aspectRatio' = "16:9"
    /\ image' = null

RunReset ==
    /\ pc' = "idle"
    /\ invocation' = null
    /\ request' = null
    /\ operation' = null
    /\ statusQueries' = 0
    /\ assets' = <<>>

----------------------------------------------------------------------------
(* User actions of App.                                                    *)

\* VideoGrid renders one card per video; a card plays its own video.
handlePlayVideo(video) ==
    /\ GridRendered
    /\ playingVideo' = Some(video)
    /\ UNCHANGED <<videos, editingVideo, isGeneratingNewVideo, isSaving,
                   savingMessage, generationError>>
    /\ UNCHANGED <<formVars, runVars, consoleError, nextId,
                   serviceJob>>

handleClosePlayer ==
    /\ PlayerRendered
    /\ playingVideo' = null
    /\ UNCHANGED <<videos, editingVideo, isGeneratingNewVideo, isSaving,
                   savingMessage, generationError>>
    /\ UNCHANGED <<formVars, runVars, consoleError, nextId,
                   serviceJob>>

\* VideoPlayer's edit affordance hands back the video it shows.
handleStartEdit(video) ==
    /\ PlayerRendered
    /\ playingVideo' = null
    /\ editingVideo' = Some(video)
    /\ UNCHANGED <<videos, isGeneratingNewVideo, isSaving, savingMessage,
                   generationError>>
    /\ UNCHANGED <<formVars, runVars, consoleError, nextId,
                   serviceJob>>

\* A cancel handler that, like handleStartGenerate, opens the form.
handleCancelEditOpensForm ==
    /\ EditFormRendered
    /\ editingVideo' = null
    /\ isGeneratingNewVideo' = TRUE
    /\ UNCHANGED <<videos, playingVideo, isSaving, savingMessage,
                   generationError>>
    /\ UNCHANGED <<formVars, runVars, consoleError, nextId, serviceJob>>

handleCancelEdit ==
    /\ EditFormRendered
    /\ editingVideo' = null
    /\ UNCHANGED <<videos, playingVideo, isGeneratingNewVideo, isSaving,
                   savingMessage, generationError>>
    /\ UNCHANGED <<formVars, runVars, consoleError, nextId,
                   serviceJob>>

handleStartGenerate ==
    /\ GridRendered
    /\ playingVideo' = null
    /\ editingVideo' = null
    /\ isGeneratingNewVideo' = TRUE
    /\ UNCHANGED <<videos, isSaving, savingMessage, generationError>>
    /\ UNCHANGED <<formVars, runVars, consoleError, nextId,
                   serviceJob>>

handleCancelGenerate ==
    /\ GenerateFormRendered
    /\ isGeneratingNewVideo' = FALSE
    /\ FormReset
    /\ UNCHANGED <<videos, playingVideo, editingVideo, isSaving,
                   savingMessage, generationError>>
    /\ UNCHANGED <<runVars, consoleError, nextId,
                   serviceJob>>

\* A close handler that clears both overlays.
dismissErrorAndPlayer ==
    /\ ErrorModalRendered
    /\ generationError' = null
    /\ playingVideo' = null
    /\ UNCHANGED <<videos, editingVideo, isGeneratingNewVideo, isSaving,
                   savingMessage>>
    /\ UNCHANGED <<formVars, runVars, consoleError, nextId, serviceJob>>

\* ErrorModal's onClose.
dismissError ==
    /\ ErrorModalRendered
    /\ generationError' = null
    /\ UNCHANGED <<videos, playingVideo, editingVideo, isGeneratingNewVideo,
                   isSaving, savingMessage>>
    /\ UNCHANGED <<formVars, runVars, consoleError, nextId,
                   serviceJob>>

----------------------------------------------------------------------------
(* The GenerateVideoPage form.                                             *)

setPrompt(value) ==
    /\ GenerateFormRendered
    /\ prompt' = value
    /\ UNCHANGED <<aspectRatio, image>>
    /\ UNCHANGED <<appVars, runVars, consoleError, nextId,
                   serviceJob>>

setAspectRatio(value) ==
    /\ GenerateFormRendered
    /\ aspectRatio' = value
    /\ UNCHANGED <<prompt, image>>
    /\ UNCHANGED <<appVars, runVars, consoleError, nextId,
                   serviceJob>>

\* The file input is rendered only while no image is attached.
handleImageChange(file) ==
    /\ GenerateFormRendered
    /\ image = null
    /\ image' = Some(file)
    /\ UNCHANGED <<prompt, aspectRatio>>
    /\ UNCHANGED <<appVars, runVars, consoleError, nextId,
                   serviceJob>>

\* The remove button of the image preview.
removeImage ==
    /\ GenerateFormRendered
    /\ image # null
    /\ image' = null
    /\ UNCHANGED <<prompt, aspectRatio>>
    /\ UNCHANGED <<appVars, runVars, consoleError, nextId,
                   serviceJob>>

----------------------------------------------------------------------------
(* The two pipeline handlers, up to their first await: the state updates   *)
(* and generateVideo's call of ai.models.generateVideos.                   *)

\* A handler that leaves the generation form open.
handleGenerateNewVideoKeepsForm(p, ratio, img) ==
    /\ savingMessage' = "Creating your video..."
    /\ isSaving' = TRUE
    /\ generationError' = null
    /\ invocation' = Some([handler |-> "handleGenerateNewVideo",
                           prompt |-> p, originalVideo |-> null])
    /\ request' = Some(BuildRequest(p, ratio, img, 1))
    /\ pc' = "submit"
    /\ UNCHANGED <<videos, playingVideo, editingVideo, isGeneratingNewVideo>>
    /\ UNCHANGED <<operation, statusQueries, assets, consoleError, nextId>>
    /\ serviceJob' = null

handleGenerateNewVideo(p, ratio, img) ==
    /\ isGeneratingNewVideo' = FALSE
    /\ savingMessage' = "Creating your video..."
    /\ isSaving' = TRUE
    /\ generationError' = null
    /\ invocation' = Some([handler |-> "handleGenerateNewVideo",
                           prompt |-> p, originalVideo |-> null])
    /\ request' = Some(BuildRequest(p, ratio, img, 1))
    /\ pc' = "submit"
    /\ UNCHANGED <<videos, playingVideo, editingVideo>>
    /\ UNCHANGED <<operation, statusQueries, assets, consoleError, nextId>>
    /\ serviceJob' = null

\* A submit handler without the test of the trimmed prompt.
handleGenerateUnchecked ==
    /\ GenerateFormRendered
    /\ Len(videos) < MaxVideos
    /\ handleGenerateNewVideo(
            prompt, aspectRatio,
            IF image # null
            THEN Some([base64 |-> image[1].base64,
                       mimeType |-> image[1].mimeType])
            ELSE null)
    /\ FormReset

\* The submit button of the form: disabled, and a no-op, on a blank prompt.
handleGenerate ==
    /\ GenerateFormRendered
    /\ Len(videos) < MaxVideos
    /\ IF Trim(prompt) # <<>>
       THEN /\ handleGenerateNewVideo(
                   prompt, aspectRatio,
                   IF image # null
                   THEN Some([base64 |-> image[1].base64,
                              mimeType |-> image[1].mimeType])
                   ELSE null)
            /\ FormReset
       ELSE UNCHANGED vars

\* A handler that does not raise the progress flag.
handleSaveEditWithoutLock(originalVideo) ==
    /\ EditFormRendered
    /\ Len(videos) < MaxVideos
    /\ editingVideo' = null
    /\ savingMessage' = "Creating your remix..."
    /\ generationError' = null
    /\ invocation' = Some([handler |-> "handleSaveEdit",
                           prompt |-> originalVideo.description,
                           originalVideo |-> Some(originalVideo)])
    /\ request' = Some(BuildRequest(originalVideo.description, "16:9", null, 1))
    /\ pc' = "submit"
    /\ UNCHANGED <<videos, playingVideo, isGeneratingNewVideo, isSaving>>
    /\ UNCHANGED <<formVars, operation, statusQueries, assets, consoleError,
                   nextId>>
    /\ serviceJob' = null

\* A handler that leaves the editor open.
handleSaveEditKeepsEditor(originalVideo) ==
    /\ EditFormRendered
    /\ Len(videos) < MaxVideos
    /\ savingMessage' = "Creating your remix..."
    /\ isSaving' = TRUE
    /\ generationError' = null
    /\ invocation' = Some([handler |-> "handleSaveEdit",
                           prompt |-> originalVideo.description,
                           originalVideo |-> Some(originalVideo)])
    /\ request' = Some(BuildRequest(originalVideo.description, "16:9", null, 1))
    /\ pc' = "submit"
    /\ UNCHANGED <<videos, playingVideo, editingVideo, isGeneratingNewVideo>>
    /\ UNCHANGED <<formVars, operation, statusQueries, assets, consoleError,
                   nextId>>
    /\ serviceJob' = null

handleSaveEdit(originalVideo) ==
    /\ EditFormRendered
    /\ Len(videos) < MaxVideos
    /\ editingVideo' = null
    /\ savingMessage' = "Creating your remix..."
    /\ isSaving' = TRUE
    /\ generationError' = null
    /\ invocation' = Some([handler |-> "handleSaveEdit",
                           prompt |-> originalVideo.description,
                           originalVideo |-> Some(originalVideo)])
    /\ request' = Some(BuildRequest(originalVideo.description, "16:9", null, 1))
    /\ pc' = "submit"
    /\ UNCHANGED <<videos, playingVideo, isGeneratingNewVideo>>
    /\ UNCHANGED <<formVars, operation, statusQueries, assets, consoleError,
                   nextId>>
    /\ serviceJob' = null

\* EditVideoPage's save affordance hands back the video it was given.
saveEdit == handleSaveEdit(editingVideo[1])

----------------------------------------------------------------------------
(* How a pipeline handler ends: the try body after the await, the catch    *)
(* block and the finally block.                                            *)

\* A handler that clears the progress flag nowhere.
FinallySkipped == isSaving' = isSaving

\* finally { setIsSaving(false); }
Finally == isSaving' = FALSE

\* catch (error) { console.error(...); setGenerationError([...]); }
Catch(error) ==
    /\ consoleError' = Some(error)
    /\ generationError' = Some(ErrorMessage(error))
    /\ UNCHANGED <<videos, playingVideo, nextId>>

\* A remix that keeps the id of the video it was made from.
NewVideoKeepsId(videoObjects) ==
    LET inv == invocation[1]
        src == DataUrl("video/mp4", videoObjects[1])
    IN  IF inv.handler = "handleGenerateNewVideo"
        THEN [id |-> nextId, title |-> GeneratedTitle(inv.prompt),
              description |-> inv.prompt, videoUrl |-> src]
        ELSE [id |-> inv.originalVideo[1].id,
              title |-> RemixTitle(inv.originalVideo[1]),
              description |-> inv.originalVideo[1].description,
              videoUrl |-> src]

\* The Video the running handler builds from the first materialised asset.
NewVideo(videoObjects) ==
    LET inv == invocation[1]
        src == DataUrl("video/mp4", videoObjects[1])
    IN  IF inv.handler = "handleGenerateNewVideo"
        THEN [id |-> nextId, title |-> GeneratedTitle(inv.prompt),
              description |-> inv.prompt, videoUrl |-> src]
        ELSE [id |-> nextId, title |-> RemixTitle(inv.originalVideo[1]),
              description |-> inv.originalVideo[1].description,
              videoUrl |-> src]

\* A try body that puts the new video at the end of the gallery.
ThenAppends(videoObjects) ==
    IF Len(videoObjects) = 0
    THEN Catch("Video generation returned no data.")
    ELSE /\ videos' = Append(videos, NewVideo(videoObjects))
         /\ playingVideo' = Some(NewVideo(videoObjects))
         /\ nextId' = nextId + 1
         /\ UNCHANGED <<generationError, consoleError>>

\* The try body after `await generateVideo(...)` has resolved.
Then(videoObjects) ==
    IF Len(videoObjects) = 0
    THEN Catch("Video generation returned no data.")
    ELSE /\ videos' = <<NewVideo(videoObjects)>> \o videos
         /\ playingVideo' = Some(NewVideo(videoObjects))
         /\ nextId' = nextId + 1
         /\ UNCHANGED <<generationError, consoleError>>

\* generateVideo's promise resolves with the encoded assets.
Fulfilled(videoObjects) ==
    /\ Then(videoObjects)
    /\ Finally
    /\ RunReset
    /\ UNCHANGED <<editingVideo, isGeneratingNewVideo, savingMessage>>
    /\ UNCHANGED formVars

\* generateVideo's promise rejects with error.
Rejected(error) ==
    /\ Catch(error)
    /\ Finally
    /\ RunReset
    /\ UNCHANGED <<editingVideo, isGeneratingNewVideo, savingMessage>>
    /\ UNCHANGED formVars
----------------------------------------------------------------------------
(* generateVideo: the steps between its awaits.                            *)

\* Promise.all over videos.map: every fetch is issued before any is awaited.
StartFetches(n) == [i \in 1..n |-> "fetching"]

\* A loop with the test the wrong way round: while (operation.done).
ConsumeInverted(op) ==
    IF op.done
    THEN /\ pc' = "sleep"
         /\ operation' = Some(op)
         /\ request' = null
         /\ UNCHANGED <<invocation, statusQueries, assets>>
         /\ UNCHANGED <<appVars, formVars, consoleError, nextId>>
    ELSE Rejected("No videos generated")

\* A response check without the test for an empty list: Promise.all of no
\* promises resolves with an empty list.
ConsumeWithoutEmptyCheck(op) ==
    IF ~op.done
    THEN /\ pc' = "sleep"
         /\ operation' = Some(op)
         /\ request' = null
         /\ UNCHANGED <<invocation, statusQueries, assets>>
         /\ UNCHANGED <<appVars, formVars, consoleError, nextId>>
    ELSE IF op.response = null
    THEN Rejected("No videos generated")
    ELSE IF op.response[1] = 0
    THEN Fulfilled(<<>>)
    ELSE /\ pc' = "fetch"
         /\ operation' = Some(op)
         /\ request' = null
         /\ assets' = StartFetches(op.response[1])
         /\ UNCHANGED <<invocation, statusQueries>>
         /\ UNCHANGED <<appVars, formVars, consoleError, nextId>>

\* generateVideo holds an operation: the while test and, once the operation
\* is done, the check of its response.
Consume(op) ==
    IF ~op.done
    THEN /\ pc' = "sleep"
         /\ operation' = Some(op)
         /\ request' = null
         /\ UNCHANGED <<invocation, statusQueries, assets>>
         /\ UNCHANGED <<appVars, formVars, consoleError, nextId>>
    ELSE IF op.response = null
    THEN Rejected("No videos generated")
    ELSE IF op.response[1] = 0
    THEN Rejected("No videos generated")
    ELSE /\ pc' = "fetch"
         /\ operation' = Some(op)
         /\ request' = null
         /\ assets' = StartFetches(op.response[1])
         /\ UNCHANGED <<invocation, statusQueries>>
         /\ UNCHANGED <<appVars, formVars, consoleError, nextId>>

\* ai.models.generateVideos resolves.
SubmitResolves(op) ==
    /\ pc = "submit"
    /\ Consume(op)
    /\ serviceJob' = Some(op)

\* ai.models.generateVideos rejects.
SubmitRejects ==
    /\ pc = "submit"
    /\ Rejected("SubmissionError")
    /\ UNCHANGED serviceJob

\* A loop body that sleeps and goes on without a status query.
TimerFiresWithoutQuery ==
    /\ pc = "sleep"
    /\ pc' = "poll"
    /\ UNCHANGED <<invocation, request, operation, statusQueries, assets>>
    /\ UNCHANGED <<appVars, formVars, consoleError, nextId,
                   serviceJob>>

\* The 10 s timer of the loop body fires: the status query is issued.
TimerFires ==
    /\ pc = "sleep"
    /\ pc' = "poll"
    /\ statusQueries' = statusQueries + 1
    /\ UNCHANGED <<invocation, request, operation, assets>>
    /\ UNCHANGED <<appVars, formVars, consoleError, nextId,
                   serviceJob>>

\* ai.operations.getVideosOperation resolves; the service reports the job
\* done after at most MaxPolls answers of "not done".
PollResolves(op) ==
    /\ pc = "poll"
    /\ op.done \/ statusQueries <= MaxPolls
    /\ Consume(op)
    /\ serviceJob' = Some(op)

\* A poller that answers a failed status query with another query.
PollRejectsAndRetries ==
    /\ pc = "poll"
    /\ pc' = "poll"
    /\ statusQueries' = statusQueries + 1
    /\ UNCHANGED <<invocation, request, operation, assets>>
    /\ UNCHANGED <<appVars, formVars, consoleError, nextId, serviceJob>>

\* ai.operations.getVideosOperation rejects.
PollRejects ==
    /\ pc = "poll"
    /\ Rejected("PollError")
    /\ UNCHANGED serviceJob

\* Promise.all after the i-th promise moved to state: it resolves, with the
\* results in the order of the videos, once every promise has resolved.
AssetMoves(i, state) ==
    LET next == [assets EXCEPT ![i] = state]
    IN  IF \A j \in 1..Len(next) : next[j] = "resolved"
        THEN Fulfilled([j \in 1..Len(next) |-> Base64Of(j)])
        ELSE /\ assets' = next
             /\ UNCHANGED <<pc, invocation, request, operation, statusQueries>>
             /\ UNCHANGED <<appVars, formVars, consoleError, nextId>>

\* A fetch whose answer is read without the test of res.ok.
FetchRespondsUnchecked(i, ok) ==
    /\ pc = "fetch"
    /\ i \in 1..Len(assets)
    /\ assets[i] = "fetching"
    /\ AssetMoves(i, "reading")
    /\ UNCHANGED serviceJob

\* fetch of the i-th video answers: res.ok or not.
FetchResponds(i, ok) ==
    /\ pc = "fetch"
    /\ i \in 1..Len(assets)
    /\ assets[i] = "fetching"
    /\ IF ok
       THEN AssetMoves(i, "reading")
       ELSE Rejected("Failed to fetch video: 403 Forbidden")
    /\ UNCHANGED serviceJob

\* fetch of the i-th video rejects (no answer from the network).
FetchRejects(i) ==
    /\ pc = "fetch"
    /\ i \in 1..Len(assets)
    /\ assets[i] = "fetching"
    /\ Rejected("TypeError: Failed to fetch")
    /\ UNCHANGED serviceJob

\* res.blob() of the i-th video resolves: bloblToBase64 starts the reader.
BlobResolves(i) ==
    /\ pc = "fetch"
    /\ i \in 1..Len(assets)
    /\ assets[i] = "reading"
    /\ AssetMoves(i, "encoding")
    /\ UNCHANGED serviceJob

\* res.blob() of the i-th video rejects (the body cannot be read).
BlobRejects(i) ==
    /\ pc = "fetch"
    /\ i \in 1..Len(assets)
    /\ assets[i] = "reading"
    /\ Rejected("TypeError: Failed to read body")
    /\ UNCHANGED serviceJob

\* bloblToBase64: reader.onload runs and resolves the promise.
ReaderLoads(i) ==
    /\ pc = "fetch"
    /\ i \in 1..Len(assets)
    /\ assets[i] = "encoding"
    /\ AssetMoves(i, "resolved")
    /\ UNCHANGED serviceJob

\* bloblToBase64: the reader fails. Only onload is set and the promise has
\* no reject path, so the promise stays pending for ever.
ReaderFails(i) ==
    /\ pc = "fetch"
    /\ i \in 1..Len(assets)
    /\ assets[i] = "encoding"
    /\ AssetMoves(i, "pending")
    /\ UNCHANGED serviceJob

----------------------------------------------------------------------------

UserStep ==
    \/ \E i \in 1..Len(videos) : handlePlayVideo(videos[i])
    \/ handleClosePlayer
    \/ handleStartEdit(playingVideo[1])
    \/ handleCancelEdit
    \/ handleStartGenerate
    \/ handleCancelGenerate
    \/ dismissError
    \/ \E value \in Prompts : setPrompt(value)
    \/ \E value \in AspectRatios : setAspectRatio(value)
    \/ \E file \in Images : handleImageChange(file)
    \/ removeImage
    \/ handleGenerate
    \/ saveEdit

PipelineStep ==
    \/ \E op \in Operations : SubmitResolves(op)
    \/ SubmitRejects
    \/ TimerFires
    \/ \E op \in Operations : PollResolves(op)
    \/ PollRejects
    \/ \E i \in 1..MaxAssets, ok \in BOOLEAN : FetchResponds(i, ok)
    \/ \E i \in 1..MaxAssets : FetchRejects(i)
    \/ \E i \in 1..MaxAssets : BlobResolves(i)
    \/ \E i \in 1..MaxAssets : BlobRejects(i)
    \/ \E i \in 1..MaxAssets : ReaderLoads(i)
    \/ \E i \in 1..MaxAssets : ReaderFails(i)

Next == UserStep \/ PipelineStep

Spec == Init /\ [][Next]_vars

\* Every awaited call of a running pipeline is eventually answered.
FairSpec == Spec /\ WF_vars(PipelineStep)
----------------------------------------------------------------------------
(* Steps and states the properties speak of.                               *)

\* A pipeline handler ran to its end in this step.
Resolves == pc # "idle" /\ pc' = "idle"

\* It ended in its catch block: the error overlay is set only there, and
\* it is null from the handler's first line on.
ResolvesInFailure == Resolves /\ generationError' # null

\* It ended at the end of its try body.
ResolvesInSuccess == Resolves /\ generationError' = null

RemixMessage == "Creating your remix..."
CreateMessage == "Creating your video..."

----------------------------------------------------------------------------
(* C1: whenever a pipeline invocation resolves, whether in success or in   *)
(* any failure, the state right after has isSaving = false and Grid as the *)
(* primary page.                                                           *)
C1_ResolvesToGrid ==
    [][Resolves => ~isSaving' /\ Page' = "Grid"]_vars

\* A remix ended in a fetch failure, and the application is on the grid.
C1_Witness ==
    /\ pc = "idle"
    /\ savingMessage = RemixMessage
    /\ consoleError = Some("Failed to fetch video: 403 Forbidden")
    /\ generationError # null
    /\ ~isSaving
    /\ Page = "Grid"

(* C2: under weak fairness of the pipeline steps, with a service that      *)
(* reports a terminal status after at most MaxPolls queries, every         *)
(* activation of SavingProgress is followed by its deactivation.           *)
C2_SavingEnds == isSaving ~> ~isSaving

(* C3: while SavingProgress is active no user action is enabled, every     *)
(* step is a step of the running pipeline, and the view state the          *)
(* pipeline's completion does not write stays as it is.                    *)
C3_InteractionLock ==
    [][isSaving =>
        /\ ~ENABLED UserStep
        /\ PipelineStep
        /\ UNCHANGED <<editingVideo, isGeneratingNewVideo, savingMessage,
                       prompt, aspectRatio, image>>
        /\ (isSaving' =>
              UNCHANGED <<videos, playingVideo, generationError>>)]_vars

\* A remix is running, with a video in the gallery, and fetches are out.
C3_Witness ==
    /\ isSaving
    /\ pc = "fetch"
    /\ Len(videos) = 1
    /\ savingMessage = RemixMessage

(* C4: in every reachable state exactly one primary page is rendered, and  *)
(* the flags never stand for two: isGeneratingNewVideo is never true with  *)
(* editingVideo non-null, and neither is set while isSaving is true.       *)
C4_OnePrimaryPage ==
    /\ Cardinality({ page \in {"SavingProgress", "GenerateForm", "EditForm", "Grid"} :
                      \/ page = "SavingProgress" /\ SavingProgressRendered
                      \/ page = "GenerateForm" /\ GenerateFormRendered
                      \/ page = "EditForm" /\ EditFormRendered
                      \/ page = "Grid" /\ GridRendered }) = 1
    /\ ~(isGeneratingNewVideo /\ editingVideo # null)
    /\ isSaving => ~isGeneratingNewVideo /\ editingVideo = null

\* A remix was started from EditForm: SavingProgress alone is active.
C4_Witness ==
    /\ isSaving
    /\ savingMessage = RemixMessage
    /\ editingVideo = null
    /\ ~isGeneratingNewVideo

(* C5: in every reachable state at most one overlay is visible:            *)
(* playingVideo and generationError are never both non-null.               *)
C5_OneOverlay == ~(playingVideo # null /\ generationError # null)
(* C6: when a pipeline succeeds exactly one Video is prepended: the        *)
(* gallery after is the new video followed by the gallery before, in the   *)
(* same order, and the player overlay holds that same video.               *)
C6_SuccessPrepends ==
    [][ResolvesInSuccess =>
        /\ Len(videos') = Len(videos) + 1
        /\ Tail(videos') = videos
        /\ playingVideo' = Some(Head(videos'))
        /\ \A i \in 1..Len(videos) : videos[i].id # Head(videos').id]_vars

\* V1 was generated, then V2 as a remix of it: the gallery is [V2, V1] and
\* the player shows V2.
C6_Witness ==
    /\ pc = "idle"
    /\ Len(videos) = 2
    /\ videos[1].id = 2
    /\ videos[2].id = 1
    /\ videos[1].title = <<"Remix of ", videos[2].title>>
    /\ playingVideo = Some(videos[1])

(* C7: from the start of a pipeline to its end in failure, at whatever     *)
(* stage, the gallery stays as it was, and the error overlay then holds    *)
(* the same fixed two lines whatever the error.                            *)
C7_FailureKeepsGallery ==
    [][(pc' # "idle" \/ ResolvesInFailure) =>
        /\ videos' = videos
        /\ ResolvesInFailure =>
             generationError' =
               Some(<<"Video generation failed.",
                      "This may be due to a billing issue. Please ensure your Cloud Project is on a paid tier to use this feature.">>)]_vars

\* With one video in the gallery, a later pipeline failed on a status query.
C7_Witness ==
    /\ pc = "idle"
    /\ Len(videos) = 1
    /\ consoleError = Some("PollError")
    /\ generationError # null

\* The page the running pipeline was invoked from.
InvokedFrom ==
    IF invocation[1].handler = "handleGenerateNewVideo"
    THEN "GenerateForm" ELSE "EditForm"

(* C8, as stated: on any pipeline error the page active after the failure  *)
(* is the page the pipeline was invoked from.                              *)
C8_FailureRestoresPage ==
    [][ResolvesInFailure => Page' = InvokedFrom]_vars

(* C8, amended: on any pipeline error the page active after the failure is *)
(* Grid; the form the pipeline was invoked from, closed by the handler's   *)
(* first lines, is not reopened.                                           *)
C8_FailureLeavesForm ==
    [][ResolvesInFailure =>
        /\ ~isGeneratingNewVideo'
        /\ editingVideo' = null
        /\ Page' # InvokedFrom]_vars

\* A new generation failed at submission: the error is up over the grid.
C8_Witness ==
    /\ pc = "idle"
    /\ savingMessage = CreateMessage
    /\ consoleError = Some("SubmissionError")
    /\ generationError # null
    /\ Page = "Grid"

(* C9, as stated: in every run whose submission succeeds, at least one     *)
(* status query has been issued when the result is consumed.               *)
C9_AlwaysOneQuery == pc = "fetch" => statusQueries >= 1

(* C9, amended: at least one status query is issued before the result is   *)
(* consumed whenever the submission returned a handle that is not done;    *)
(* a handle that is already done is consumed with no status query.         *)
C9_QueryUnlessDone ==
    [][/\ pc = "submit" /\ pc' = "sleep" => ~operation'[1].done
       /\ pc = "sleep" => pc' = "poll" /\ statusQueries' = statusQueries + 1
       /\ pc # "fetch" /\ pc' = "fetch" =>
            \/ pc = "poll" /\ statusQueries' >= 1
            \/ pc = "submit" /\ operation'[1].done /\ statusQueries' = 0]_vars

\* The first status query answered done: its assets are being fetched.
C9_Witness ==
    /\ pc = "fetch"
    /\ statusQueries = 1
    /\ operation[1].done

(* C10: assets are read and a Video is added only after an operation with  *)
(* done = true has been observed, and an operation that is not done sends  *)
(* the poller to its next query, never on to the result.                   *)
C10_OnlyTerminalResults ==
    [][/\ pc' = "fetch" => operation'[1].done
       /\ pc' = "sleep" => ~operation'[1].done
       /\ pc' = "poll" => pc = "sleep" \/ pc = "poll"
       /\ Len(videos') > Len(videos) => pc = "fetch" /\ operation[1].done]_vars

\* After two answers of "not done" the poller is waiting to ask again.
C10_Witness ==
    /\ pc = "sleep"
    /\ statusQueries = 2
    /\ ~operation[1].done

\* The service's answer for a job that ended with no generated video.
ZeroAssetJob == Some([done |-> TRUE, response |-> Some(0)])

(* C11: when the job of a request reaches terminal status with zero asset  *)
(* references, the pipeline ends in the empty-result failure in that very  *)
(* step: no Video is added and SavingProgress is exited.                   *)
C11_EmptyResultFails ==
    [][(pc # "idle" /\ serviceJob' = ZeroAssetJob) =>
        /\ Resolves
        /\ consoleError' = Some("No videos generated")
        /\ generationError' # null
        /\ videos' = videos
        /\ playingVideo' = playingVideo
        /\ ~isSaving']_vars

\* With one video in the gallery, a later job ended with zero assets.
C11_Witness ==
    /\ pc = "idle"
    /\ serviceJob = ZeroAssetJob
    /\ consoleError = Some("No videos generated")
    /\ generationError # null
    /\ Len(videos) = 1
    /\ ~isSaving

(* C12: wherever the error overlay is shown it can be dismissed, and the   *)
(* dismissal sets it to none and leaves the gallery, the primary page and  *)
(* the player overlay unchanged.                                           *)
C12_DismissOnlyClearsError ==
    [][/\ ErrorModalRendered => ENABLED dismissError
       /\ (generationError # null /\ generationError' = null /\ pc' = "idle") =>
            /\ videos' = videos
            /\ Page' = Page
            /\ playingVideo' = playingVideo
            /\ UNCHANGED <<editingVideo, isGeneratingNewVideo, isSaving>>]_vars

\* No pipeline has succeeded, one has failed, and its error was dismissed.
C12_Witness ==
    /\ pc = "idle"
    /\ videos = <<>>
    /\ consoleError # null
    /\ generationError = null
    /\ Page = "Grid"

Invoked == pc = "idle" /\ pc' = "submit"

(* C14: the request sent to the service has an image field, holding the    *)
(* encoded bytes and the media type of the attached image, exactly when an *)
(* image is attached; with no image the request has no image field.        *)
C14_ImageFieldIffAttached ==
    [][Invoked =>
        /\ image # null <=> "image" \in DOMAIN request'[1]
        /\ image # null =>
             request'[1].image = [imageBytes |-> image[1].base64,
                                  mimeType |-> image[1].mimeType]]_vars

\* A request with the attached image is on its way to the service.
C14_Witness ==
    /\ pc = "submit"
    /\ "image" \in DOMAIN request[1]
    /\ request[1].image = [imageBytes |-> "AAAA", mimeType |-> "image/png"]

C16_GalleryOnlyGrows ==
    [][/\ \/ videos' = videos
          \/ Len(videos') = Len(videos) + 1 /\ Tail(videos') = videos
       /\ \A i, j \in 1..Len(videos') :
            i # j => videos'[i].id # videos'[j].id]_vars

\* The gallery holds a video and its remix.
C16_Witness ==
    /\ Len(videos) = 2
    /\ videos[1].title = <<"Remix of ", videos[2].title>>
    /\ videos[1].description = videos[2].description
    /\ videos[1].id # videos[2].id

\* An awaited service call of the running pipeline rejected in this step:
\* the step leaves "submit" or "poll" without an answer of the service.
CallFails ==
    /\ pc \in {"submit", "poll"}
    /\ serviceJob' = serviceJob
    /\ ~(pc = "poll" /\ pc' = "sleep")

(* C17: there is no retry inside a run: a submission is issued only by the *)
(* invocation, a status query only after an answer of "not done", and a    *)
(* failed submission or status query ends the run in that step, in the     *)
(* failure of the handler's catch block, with no call left in flight.      *)
C17_NoRetry ==
    [][/\ pc' = "submit" => pc = "idle"
       /\ request' # null /\ request' # request => pc = "idle"
       /\ statusQueries' > statusQueries =>
            /\ pc = "sleep"
            /\ ~operation[1].done
            /\ statusQueries' = statusQueries + 1
       /\ CallFails =>
            /\ Resolves
            /\ consoleError' \in {Some("SubmissionError"), Some("PollError")}
            /\ generationError' # null
            /\ request' = null
            /\ statusQueries' = 0
            /\ ~isSaving']_vars

\* A run ended on its second status query, which failed.
C17_Witness ==
    /\ pc = "idle"
    /\ consoleError = Some("PollError")
    /\ serviceJob = Some([done |-> FALSE, response |-> null])
    /\ generationError # null
    /\ ~isSaving

(* C18: for a terminal job with n >= 1 asset references a fetch is issued  *)
(* for every one of the n at once; the pipeline succeeds only in the step  *)
(* in which the last of the n completes; and a fetch answered with a       *)
(* non-success status fails the pipeline and adds no Video, whichever      *)
(* reference it is and whatever the others have done.                      *)
C18_AllAssetsFetched ==
    [][/\ (pc # "fetch" /\ pc' = "fetch") =>
            /\ serviceJob'[1].response[1] >= 1
            /\ Len(assets') = serviceJob'[1].response[1]
            /\ \A i \in 1..Len(assets') : assets'[i] = "fetching"
       /\ ResolvesInSuccess =>
            /\ pc = "fetch"
            /\ \E i \in 1..Len(assets) :
                 /\ assets[i] = "encoding"
                 /\ \A j \in 1..Len(assets) : j # i => assets[j] = "resolved"
       /\ (\E i \in 1..MaxAssets : FetchResponds(i, FALSE)) =>
            /\ ResolvesInFailure
            /\ videos' = videos
            /\ playingVideo' = playingVideo
            /\ ~isSaving']_vars

\* Of two fetches issued together the second has completed, the first has
\* not been answered yet.
C18_Witness ==
    /\ pc = "fetch"
    /\ Len(assets) = 2
    /\ assets[1] = "fetching"
    /\ assets[2] = "resolved"

(* C19: at most one pipeline is in flight: one is running exactly while    *)
(* isSaving is true, it is started only from GenerateForm or EditForm with *)
(* isSaving false, and from its start to its resolution no handler can be  *)
(* invoked and its invocation is not replaced.                             *)
C19_OnePipeline ==
    [][/\ pc # "idle" <=> isSaving
       /\ pc' # "idle" <=> isSaving'
       /\ Invoked => ~isSaving /\ Page \in {"GenerateForm", "EditForm"}
       /\ pc # "idle" =>
            /\ ~ENABLED handleGenerate
            /\ ~ENABLED saveEdit
            /\ invocation' = invocation \/ invocation' = null]_vars

\* A remix is in flight, waiting for its second status query.
C19_Witness ==
    /\ isSaving
    /\ pc = "poll"
    /\ statusQueries = 2
    /\ invocation[1].handler = "handleSaveEdit"

\* video is an entry of the gallery.
InGallery(video) == \E i \in 1..Len(videos) : videos[i] = video

(* C20: in every reachable state the video of the player overlay and the   *)
(* video of the editor, when non-null, are entries of the gallery, and     *)
(* right after a successful pipeline playingVideo is the gallery's head.   *)
C20_OverlaysShowGalleryEntries ==
    /\ [](/\ playingVideo # null => InGallery(playingVideo[1])
          /\ editingVideo # null => InGallery(editingVideo[1]))
    /\ [][ResolvesInSuccess => playingVideo' = Some(videos'[1])]_vars

\* The editor is open on the older of two gallery entries.
C20_Witness ==
    /\ Len(videos) = 2
    /\ editingVideo = Some(videos[2])
    /\ Page = "EditForm"

====
